---- MODULE Spec2Model ----
(***************************************************************************)
(* Model of the touchless-mouse gesture translator (src/translator.py),    *)
(* the hand tracker (src/hand_tracker.py) and the presentation loop        *)
(* (src/gui.py).                                                           *)
(*                                                                         *)
(* Coordinates are integers in thousandths of the normalised image unit    *)
(* (0.06 is 60, 0.002 is 2, 0.008 is 8).  A landmark list is the sequence  *)
(* of its 21 points [x, y, z], the landmark of index i at position i + 1;  *)
(* the empty landmark list is the empty sequence.  Distances are kept      *)
(* squared, so that the comparison with a threshold is exact in integer    *)
(* arithmetic.                                                             *)
(***************************************************************************)
EXTENDS Integers, Sequences, FiniteSets, TLC

VARIABLES
    distance_threshold,     \* Translator.distance_threshold
    shake_sensitivity,      \* Translator.shake_sensitivity
    mouse_sensitivity,      \* Translator.mouse_sensitivity
    scroll_sensitivity,     \* Translator.scroll_sensitivity
    mp_landmarks,           \* current landmark list of the last translator call
    mp_past_landmarks,      \* previous landmark list of the last translator call
    keyboard_events,        \* keyboard events emitted by the last operation
    mouse_events,           \* mouse events emitted by the last operation
    called,                 \* channels called on (mp_landmarks, mp_past_landmarks)
    empty_landmarks,        \* the module-level dict of hand_tracker.py
    past_hand_landmarks,    \* HandTracker.past_hand_landmarks: the module-level
                            \* dict itself (alias) or a dict of its own
    results,                \* hands detected in the last frame (in detection order)
    image_data,             \* tuple returned by the last get_image_data
    started,                \* GUI.__init__ has made its own call of update
    after_pending,          \* number of update callbacks scheduled with window.after
    raised,                 \* exception that escaped GUI.update, or "none"
    tick_calls,             \* calls made by the last GUI.update, in order
    alt_tab_held,           \* the keyboard library holds alt+tab pressed
    deleted,                \* objects whose __del__ has run
    last_seen               \* history: per slot, the hand of the latest frame that
                            \* showed one, and the successful ticks since

vars == <<distance_threshold, shake_sensitivity, mouse_sensitivity,
          scroll_sensitivity, mp_landmarks, mp_past_landmarks, keyboard_events,
          mouse_events, called, empty_landmarks, past_hand_landmarks, results,
          image_data, started, after_pending, raised, tick_calls, alt_tab_held,
          deleted, last_seen>>

config_vars == <<distance_threshold, shake_sensitivity, mouse_sensitivity,
                 scroll_sensitivity>>

call_vars == <<mp_landmarks, mp_past_landmarks, called>>

tracker_vars == <<empty_landmarks, past_hand_landmarks, results, image_data>>

gui_vars == <<started, after_pending, raised, tick_calls>>

history_vars == <<last_seen>>

-----------------------------------------------------------------------------
(* Bounds and program constants                                            *)

\* Number of palm positions the inputs are drawn from.
MaxPalm == 4

\* Translator(0.06, 0.002, 3000, 200) in GUI.__init__, in thousandths.
DefaultDistanceThreshold == 60
DefaultShakeSensitivity == 2
DefaultMouseSensitivity == 3000
DefaultScrollSensitivity == 200

\* The 0.008 added to shake_sensitivity for fist navigation.
FistShakeOffset == 8

\* Number of landmarks of a detected hand (indices 0..20).
NumLandmarks == 21

\* Values the configuration setters are called with.
ShakeSensitivities == {0, DefaultShakeSensitivity}

\* Cursor positions mouse.get_position() may report, in pixels.
CursorPositions == {<<960, 540>>}

-----------------------------------------------------------------------------
(* Landmark lists                                                          *)

Point(x, y, z) == [x |-> x, y |-> y, z |-> z]

Shift(p, dx, dy, dz) == Point(p.x + dx, p.y + dy, p.z + dz)

\* The shared empty NormalizedLandmarkList.
empty_landmark_list == <<>>

\* Palm positions: a diagonal jitter below the default shake sensitivity, a
\* diagonal move, a purely vertical move of exactly 0.008, then a move along
\* z only and further neighbours.
PalmPositions ==
    << Point(500, 500, 0), Point(501, 501, 1), Point(510, 508, 3),
       Point(500, 508, 0), Point(501, 500, 3), Point(502, 500, 0),
       Point(500, 500, 10), Point(490, 492, 0) >>

Palms == { PalmPositions[i] : i \in 1..MaxPalm }

Fingers == {"index", "middle", "ring", "pinkie"}

\* Landmark index of a finger's tip and of its middle joint.
TipOf(f) ==
    CASE f = "index" -> 8 [] f = "middle" -> 12 [] f = "ring" -> 16
      [] f = "pinkie" -> 20

JointOf(f) ==
    CASE f = "index" -> 6 [] f = "middle" -> 10 [] f = "ring" -> 14
      [] f = "pinkie" -> 18

\* Offset of a fingertip from the thumb tip: at distance exactly 60 when it
\* touches, just beyond 60 when it does not; one axis per finger, and both
\* of x and y for the pinkie.
TipOffset(f, touching) ==
    CASE f = "index"  -> IF touching THEN <<60, 0, 0>> ELSE <<61, 0, 0>>
      [] f = "middle" -> IF touching THEN <<0, -60, 0>> ELSE <<0, -61, 0>>
      [] f = "ring"   -> IF touching THEN <<0, 0, 60>> ELSE <<0, 0, 61>>
      [] f = "pinkie" -> IF touching THEN <<36, 48, 0>> ELSE <<36, 48, 5>>

\* A hand: the palm, the set of fingers touching the thumb, the set of
\* curled fingers, and whether landmark 2 lies left of landmark 17.
Hand(palm, touch, curled, right) ==
    LET thumb == Shift(palm, -40, -100, 0)
        tip(f) == LET o == TipOffset(f, f \in touch)
                  IN Shift(thumb, o[1], o[2], o[3])
        joint(f) == IF f \in curled THEN Shift(tip(f), 0, -1, 0) ELSE tip(f)
    IN [n \in 1..NumLandmarks |->
          LET i == n - 1
          IN CASE i = 4 -> thumb
               [] i = 2 -> Shift(palm, IF right THEN -20 ELSE 20, -30, 0)
               [] i = 17 -> Shift(palm, IF right THEN 20 ELSE -20, -30, 0)
               [] \E f \in Fingers : i = TipOf(f) ->
                    tip(CHOOSE f \in Fingers : i = TipOf(f))
               [] \E f \in Fingers : i = JointOf(f) ->
                    joint(CHOOSE f \in Fingers : i = JointOf(f))
               [] OTHER -> palm]

\* Hand shapes (touching fingers, curled fingers): open hands with no, one,
\* two and four fingers on the thumb, a fist with and without the index on
\* the thumb, and a hand with three fingers curled and the index extended.
Shapes ==
    { <<{}, {}>>, <<{"index"}, {}>>, <<{"middle"}, {}>>, <<{"pinkie"}, {}>>,
      <<{"index", "middle"}, {}>>, <<{"middle", "ring"}, {}>>, <<Fingers, {}>>,
      <<{}, Fingers>>, <<{"index"}, Fingers>>,
      <<{}, Fingers \ {"index"}>> }

Skeletons == { Hand(p, s[1], s[2], TRUE) : p \in Palms, s \in Shapes }

\* coords[i] of a Python list: indices start at 0.
at(coords, i) == coords[i + 1]

-----------------------------------------------------------------------------
(* Geometry utilities of translator.py                                     *)

Abs(n) == IF n < 0 THEN -n ELSE n

\* int() of the quotient n / d of a float: truncation toward zero.
TruncDiv(n, d) == IF n >= 0 THEN n \div d ELSE -((-n) \div d)

\* The square of get_3d_distance(coord1, coord2).
get_3d_distance_squared(coord1, coord2) ==
    (coord1.x - coord2.x) * (coord1.x - coord2.x)
    + (coord1.y - coord2.y) * (coord1.y - coord2.y)
    + (coord1.z - coord2.z) * (coord1.z - coord2.z)

\* distance <= threshold, for a distance given by its square.
within_threshold(distance_squared, threshold) ==
    threshold >= 0 /\ distance_squared <= threshold * threshold

get_hand_coords(coords) ==
    [index |-> at(coords, 8), middle |-> at(coords, 12), ring |-> at(coords, 16),
     pinkie |-> at(coords, 20), thumb |-> at(coords, 4), palm |-> at(coords, 0)]

is_shaking(palm_coords, past_palm_coords, sensitivity) ==
    /\ Abs(palm_coords.x - past_palm_coords.x) < sensitivity
    /\ Abs(palm_coords.y - past_palm_coords.y) < sensitivity
    /\ Abs(palm_coords.z - past_palm_coords.z) < sensitivity

is_fist(coords) ==
    /\ ~(at(coords, 8).y <= at(coords, 6).y)
    /\ ~(at(coords, 12).y <= at(coords, 10).y)
    /\ ~(at(coords, 16).y <= at(coords, 14).y)
    /\ ~(at(coords, 20).y <= at(coords, 18).y)

-----------------------------------------------------------------------------
(* Events handed to the keyboard and mouse libraries                       *)

Press(key) == <<"press", key>>
Release(key) == <<"release", key>>
Send(key) == <<"send", key>>
Click == <<"click">>
RightClick == <<"right_click">>
Wheel(delta) == <<"wheel", delta>>
\* Cursor targets are in thousandths of a pixel.
Move(x, y) == <<"move", x, y>>

\* The key each finger sends when it leaves the thumb.
KeyOf(f) ==
    CASE f = "index" -> "space" [] f = "middle" -> "enter"
      [] f = "ring" -> "backspace" [] f = "pinkie" -> "escape"

FingerKeys == { KeyOf(f) : f \in Fingers }

\* Whether the keyboard library holds alt+tab pressed after the events, given
\* whether it held it before: press("alt+tab") leaves the keys down until
\* release("alt+tab"); send() presses and releases its own keys.
RECURSIVE held_after(_, _)
held_after(held, events) ==
    IF events = << >> THEN held
    ELSE held_after(IF Head(events) = Press("alt+tab") THEN TRUE
                    ELSE IF Head(events) = Release("alt+tab") THEN FALSE
                    ELSE held,
                    Tail(events))

-----------------------------------------------------------------------------
(* Translator                                                              *)

\* Squared distances between each fingertip and the thumb tip.
thumb_distances_squared(hand_coords) ==
    [f \in Fingers |-> get_3d_distance_squared(hand_coords[f], hand_coords.thumb)]

\* Faulty variant: the key fires while the finger was on the thumb, released or not.
finger_released_level(distance_squared, past_distance_squared, threshold) ==
    within_threshold(past_distance_squared, threshold)

\* "not d <= threshold and past_d <= threshold".
finger_released(distance_squared, past_distance_squared, threshold) ==
    /\ ~within_threshold(distance_squared, threshold)
    /\ within_threshold(past_distance_squared, threshold)

\* Faulty variant: the release of alt+tab tested before the finger checks.
finger_keys_release_first(coords, past_coords, threshold) ==
    LET d == thumb_distances_squared(get_hand_coords(coords))
        past_d == thumb_distances_squared(get_hand_coords(past_coords))
    IN IF ~is_fist(coords) /\ is_fist(past_coords)
       THEN << Release("alt+tab") >>
       ELSE IF finger_released(d.index, past_d.index, threshold)
       THEN << Send("space") >>
       ELSE IF finger_released(d.middle, past_d.middle, threshold)
       THEN << Send("enter") >>
       ELSE IF finger_released(d.ring, past_d.ring, threshold)
       THEN << Send("backspace") >>
       ELSE IF finger_released(d.pinkie, past_d.pinkie, threshold)
       THEN << Send("escape") >>
       ELSE << >>

\* Faulty variant: the finger checks in the order of the mouse channel (ring before
\* middle).
finger_keys_ring_first(coords, past_coords, threshold) ==
    LET d == thumb_distances_squared(get_hand_coords(coords))
        past_d == thumb_distances_squared(get_hand_coords(past_coords))
    IN IF finger_released(d.index, past_d.index, threshold)
       THEN << Send("space") >>
       ELSE IF finger_released(d.ring, past_d.ring, threshold)
       THEN << Send("backspace") >>
       ELSE IF finger_released(d.middle, past_d.middle, threshold)
       THEN << Send("enter") >>
       ELSE IF finger_released(d.pinkie, past_d.pinkie, threshold)
       THEN << Send("escape") >>
       ELSE IF ~is_fist(coords) /\ is_fist(past_coords)
       THEN << Release("alt+tab") >>
       ELSE << >>

\* The chain of finger checks at the end of
\* translate_landmarks_to_keyboard_action; the release of alt+tab hangs on
\* the last of them as its elif.
finger_keys(coords, past_coords, threshold) ==
    LET d == thumb_distances_squared(get_hand_coords(coords))
        past_d == thumb_distances_squared(get_hand_coords(past_coords))
    IN IF finger_released(d.index, past_d.index, threshold)
       THEN << Send("space") >>
       ELSE IF finger_released(d.middle, past_d.middle, threshold)
       THEN << Send("enter") >>
       ELSE IF finger_released(d.ring, past_d.ring, threshold)
       THEN << Send("backspace") >>
       ELSE IF finger_released(d.pinkie, past_d.pinkie, threshold)
       THEN << Send("escape") >>
       ELSE IF ~is_fist(coords) /\ is_fist(past_coords)
       THEN << Release("alt+tab") >>
       ELSE << >>

\* Faulty variant: the vertical tests before the horizontal ones.
fist_navigation_vertical_first(palm, past_palm) ==
    IF palm.y < past_palm.y THEN << Send("down arrow") >>
    ELSE IF palm.y > past_palm.y THEN << Send("up arrow") >>
    ELSE IF palm.x <= past_palm.x THEN << Send("shift+tab") >>
    ELSE << Send("tab") >>

\* Faulty variant: the directional tests without their returns.
fist_navigation_no_return(palm, past_palm) ==
    (IF palm.x <= past_palm.x THEN << Send("shift+tab") >> ELSE << >>)
    \o (IF palm.x > past_palm.x THEN << Send("tab") >> ELSE << >>)
    \o (IF palm.y <= past_palm.y THEN << Send("down arrow") >> ELSE << >>)
    \o (IF palm.y > past_palm.y THEN << Send("up arrow") >> ELSE << >>)

\* The directional key of a fist that moved, by the order of the tests.
fist_navigation(palm, past_palm) ==
    IF palm.x <= past_palm.x THEN << Send("shift+tab") >>
    ELSE IF palm.x > past_palm.x THEN << Send("tab") >>
    ELSE IF palm.y <= past_palm.y THEN << Send("down arrow") >>
    ELSE IF palm.y > past_palm.y THEN << Send("up arrow") >>
    ELSE << >>

\* Faulty variant: alt+tab pressed on every call that sees a fist.
alt_tab_pressed_level(coords, past_coords) ==
    is_fist(coords)

\* "if is_fist(coords): if not is_fist(past_coords): press".
alt_tab_pressed(coords, past_coords) ==
    is_fist(coords) /\ ~is_fist(past_coords)

\* Faulty variant: a missing previous hand taken for an open hand, so that a
\* first fist presses alt+tab.
keyboard_action_first_fist_pressed(coords, past_coords, threshold, sensitivity) ==
    IF Len(past_coords) = 0
    THEN IF is_fist(coords) THEN << Press("alt+tab") >> ELSE << >>
    ELSE
      LET palm == get_hand_coords(coords).palm
          past_palm == get_hand_coords(past_coords).palm
          pressed == IF alt_tab_pressed(coords, past_coords)
                     THEN << Press("alt+tab") >> ELSE << >>
          navigated == IF /\ is_fist(coords)
                          /\ ~is_shaking(palm, past_palm, sensitivity + FistShakeOffset)
                       THEN fist_navigation(palm, past_palm) ELSE << >>
      IN IF navigated # << >>
         THEN pressed \o navigated
         ELSE pressed \o finger_keys(coords, past_coords, threshold)

\* The events of translate_landmarks_to_keyboard_action(coords, past_coords),
\* in the order they are emitted.
keyboard_action(coords, past_coords, threshold, sensitivity) ==
    IF Len(past_coords) = 0 THEN << >>
    ELSE
      LET palm == get_hand_coords(coords).palm
          past_palm == get_hand_coords(past_coords).palm
          pressed == IF alt_tab_pressed(coords, past_coords)
                     THEN << Press("alt+tab") >> ELSE << >>
          navigated == IF /\ is_fist(coords)
                          /\ ~is_shaking(palm, past_palm, sensitivity + FistShakeOffset)
                       THEN fist_navigation(palm, past_palm) ELSE << >>
      IN IF navigated # << >>
         THEN pressed \o navigated
         ELSE pressed \o finger_keys(coords, past_coords, threshold)

\* Faulty variant: the scroll amount taken by floor division instead of int().
mouse_gesture_floor_scroll(hand_coords, past_palm_coords, cursor, threshold, mouse_s, scroll_s) ==
    LET d == thumb_distances_squared(hand_coords)
        palm == hand_coords.palm
    IN IF within_threshold(d.index, threshold) THEN << Click >>
       ELSE IF within_threshold(d.ring, threshold) THEN << RightClick >>
       ELSE IF within_threshold(d.middle, threshold)
       THEN LET clicks_to_scroll ==
                   (scroll_s * (palm.y - past_palm_coords.y)) \div 1000
            IN << Wheel(-clicks_to_scroll) >>
       ELSE << Move(cursor[1] * 1000 + mouse_s * (palm.x - past_palm_coords.x),
                    cursor[2] * 1000 + mouse_s * (palm.y - past_palm_coords.y)) >>

\* Faulty variant: the click test written as the keyboard channel writes its first
\* test, "not index_thumb_distance <= threshold".
mouse_gesture_inverted_click(hand_coords, past_palm_coords, cursor, threshold, mouse_s, scroll_s) ==
    LET d == thumb_distances_squared(hand_coords)
        palm == hand_coords.palm
    IN IF ~within_threshold(d.index, threshold) THEN << Click >>
       ELSE IF within_threshold(d.ring, threshold) THEN << RightClick >>
       ELSE IF within_threshold(d.middle, threshold)
       THEN LET clicks_to_scroll ==
                   TruncDiv(scroll_s * (palm.y - past_palm_coords.y), 1000)
            IN << Wheel(-clicks_to_scroll) >>
       ELSE << Move(cursor[1] * 1000 + mouse_s * (palm.x - past_palm_coords.x),
                    cursor[2] * 1000 + mouse_s * (palm.y - past_palm_coords.y)) >>

\* Faulty variant: the scroll test before the right-click test.
mouse_gesture_scroll_first(hand_coords, past_palm_coords, cursor, threshold, mouse_s, scroll_s) ==
    LET d == thumb_distances_squared(hand_coords)
        palm == hand_coords.palm
    IN IF within_threshold(d.index, threshold) THEN << Click >>
       ELSE IF within_threshold(d.middle, threshold)
       THEN LET clicks_to_scroll ==
                   TruncDiv(scroll_s * (palm.y - past_palm_coords.y), 1000)
            IN << Wheel(-clicks_to_scroll) >>
       ELSE IF within_threshold(d.ring, threshold) THEN << RightClick >>
       ELSE << Move(cursor[1] * 1000 + mouse_s * (palm.x - past_palm_coords.x),
                    cursor[2] * 1000 + mouse_s * (palm.y - past_palm_coords.y)) >>

\* The mouse action of an open, moving hand, by the order of the tests.
mouse_gesture(hand_coords, past_palm_coords, cursor, threshold, mouse_s, scroll_s) ==
    LET d == thumb_distances_squared(hand_coords)
        palm == hand_coords.palm
    IN IF within_threshold(d.index, threshold) THEN << Click >>
       ELSE IF within_threshold(d.ring, threshold) THEN << RightClick >>
       ELSE IF within_threshold(d.middle, threshold)
       THEN LET clicks_to_scroll ==
                   TruncDiv(scroll_s * (palm.y - past_palm_coords.y), 1000)
            IN << Wheel(-clicks_to_scroll) >>
       ELSE << Move(cursor[1] * 1000 + mouse_s * (palm.x - past_palm_coords.x),
                    cursor[2] * 1000 + mouse_s * (palm.y - past_palm_coords.y)) >>

\* Faulty variant: the shake test guards the cursor move only.
mouse_action_shake_last(coords, past_coords, cursor, threshold, sensitivity, mouse_s, scroll_s) ==
    IF Len(past_coords) = 0 THEN << >>
    ELSE
      LET hand_coords == get_hand_coords(coords)
          past_palm_coords == at(past_coords, 0)
          gesture == mouse_gesture(hand_coords, past_palm_coords, cursor,
                                   threshold, mouse_s, scroll_s)
      IN IF is_fist(coords) THEN << >>
         ELSE IF /\ gesture[1][1] = "move"
                 /\ is_shaking(hand_coords.palm, past_palm_coords, sensitivity)
         THEN << >>
         ELSE gesture

\* Faulty variant: no shake test.
mouse_action_no_shake_test(coords, past_coords, cursor, threshold, sensitivity, mouse_s, scroll_s) ==
    IF Len(past_coords) = 0 THEN << >>
    ELSE
      LET hand_coords == get_hand_coords(coords)
          past_palm_coords == at(past_coords, 0)
      IN IF is_fist(coords) THEN << >>
         ELSE mouse_gesture(hand_coords, past_palm_coords, cursor, threshold,
                            mouse_s, scroll_s)

\* The events of translate_landmarks_to_mouse_action(coords, past_coords)
\* with the cursor at position cursor (pixels).
mouse_action(coords, past_coords, cursor, threshold, sensitivity, mouse_s, scroll_s) ==
    IF Len(past_coords) = 0 THEN << >>
    ELSE
      LET hand_coords == get_hand_coords(coords)
          past_palm_coords == at(past_coords, 0)
      IN IF is_shaking(hand_coords.palm, past_palm_coords, sensitivity) THEN << >>
         ELSE IF is_fist(coords) THEN << >>
         ELSE mouse_gesture(hand_coords, past_palm_coords, cursor, threshold,
                            mouse_s, scroll_s)

-----
(* Calls of the translator: each call is made either on the next frame,    *)
(* with the current landmarks of the call before as its previous ones, or  *)
(* on the pair of landmark lists of the call before.                       *)

KeyboardCall(coords, past_coords, same) ==
    /\ deleted = {}
    /\ mp_landmarks' = coords
    /\ mp_past_landmarks' = past_coords
    /\ keyboard_events' =
         keyboard_action(coords, past_coords, distance_threshold, shake_sensitivity)
    /\ mouse_events' = IF same THEN mouse_events ELSE << >>
    /\ called' = IF same THEN called \cup {"keyboard"} ELSE {"keyboard"}
    /\ alt_tab_held' = held_after(alt_tab_held, keyboard_events')
    /\ UNCHANGED <<config_vars, tracker_vars, gui_vars, deleted, history_vars>>

MouseCall(coords, past_coords, cursor, same) ==
    /\ deleted = {}
    /\ mp_landmarks' = coords
    /\ mp_past_landmarks' = past_coords
    /\ mouse_events' =
         mouse_action(coords, past_coords, cursor, distance_threshold,
                      shake_sensitivity, mouse_sensitivity, scroll_sensitivity)
    /\ keyboard_events' = IF same THEN keyboard_events ELSE << >>
    /\ called' = IF same THEN called \cup {"mouse"} ELSE {"mouse"}
    /\ UNCHANGED <<config_vars, tracker_vars, gui_vars, alt_tab_held, deleted,
                   history_vars>>

translate_landmarks_to_keyboard_action ==
    \E coords \in Skeletons : KeyboardCall(coords, mp_landmarks, FALSE)

translate_landmarks_to_keyboard_action_again ==
    /\ called = {"mouse"}
    /\ KeyboardCall(mp_landmarks, mp_past_landmarks, TRUE)

translate_landmarks_to_mouse_action ==
    \E coords \in Skeletons, cursor \in CursorPositions :
        MouseCall(coords, mp_landmarks, cursor, FALSE)

translate_landmarks_to_mouse_action_again ==
    /\ called = {"keyboard"}
    /\ \E cursor \in CursorPositions :
          MouseCall(mp_landmarks, mp_past_landmarks, cursor, TRUE)

\* A setter emits nothing; the calls that follow it run under the new value.
set_shake_sensitivity ==
    \E s \in ShakeSensitivities :
        /\ deleted = {}
        /\ s # shake_sensitivity
        /\ shake_sensitivity' = s
        /\ keyboard_events' = << >>
        /\ mouse_events' = << >>
        /\ called' = {}
        /\ UNCHANGED <<distance_threshold, mouse_sensitivity, scroll_sensitivity,
                       mp_landmarks, mp_past_landmarks, tracker_vars, gui_vars,
                       alt_tab_held, deleted, history_vars>>

\* Faulty variant: a teardown that leaves the keyboard alone.
Translator__del__without_release ==
    /\ "translator" \notin deleted
    /\ deleted' = deleted \cup {"translator"}
    /\ keyboard_events' = << >>
    /\ mouse_events' = << >>
    /\ alt_tab_held' = held_after(alt_tab_held, keyboard_events')
    /\ UNCHANGED <<config_vars, call_vars, tracker_vars, gui_vars, history_vars>>

\* Translator.__del__: releases alt+tab, pressed or not.
Translator__del__ ==
    /\ "translator" \notin deleted
    /\ deleted' = deleted \cup {"translator"}
    /\ keyboard_events' = << Release("alt+tab") >>
    /\ mouse_events' = << >>
    /\ alt_tab_held' = held_after(alt_tab_held, keyboard_events')
    /\ UNCHANGED <<config_vars, call_vars, tracker_vars, gui_vars, history_vars>>

\* State after Translator(0.06, 0.002, 3000, 200) and HandTracker(0), before
\* the first update.
Init ==
    /\ distance_threshold = DefaultDistanceThreshold
    /\ shake_sensitivity = DefaultShakeSensitivity
    /\ mouse_sensitivity = DefaultMouseSensitivity
    /\ scroll_sensitivity = DefaultScrollSensitivity
    /\ mp_landmarks = empty_landmark_list
    /\ mp_past_landmarks = empty_landmark_list
    /\ keyboard_events = << >>
    /\ mouse_events = << >>
    /\ called = {}
    /\ empty_landmarks = [Right |-> empty_landmark_list, Left |-> empty_landmark_list]
    /\ past_hand_landmarks = [alias |-> TRUE]
    /\ results = << >>
    /\ image_data = << >>
    /\ started = FALSE
    /\ after_pending = 0
    /\ raised = "none"
    /\ tick_calls = << >>
    /\ alt_tab_held = FALSE
    /\ deleted = {}
    /\ last_seen = [side \in {"Right", "Left"} |->
                      [landmarks |-> empty_landmark_list, ticks_ago |-> 0]]

-----------------------------------------------------------------------------
(* Hand tracker                                                            *)

\* max_num_hands of the detection model.
MaxNumHands == 2

\* An open hand seen edge-on: landmarks 2 and 17 have the same x.
EdgeOnHand ==
    LET hand == Hand(PalmPositions[2], {}, {}, TRUE)
    IN [hand EXCEPT ![18] = [@ EXCEPT !.x = hand[3].x]]

\* Hands a frame may show: a right hand open and as a fist, the fist also
\* moved; a left hand open, and moved with the index on the thumb; a hand
\* seen edge-on.
LoopSkeletons ==
    { Hand(PalmPositions[1], {}, {}, TRUE),
      Hand(PalmPositions[1], {}, Fingers, TRUE),
      Hand(PalmPositions[3], {}, Fingers, TRUE),
      Hand(PalmPositions[1], {}, {}, FALSE),
      Hand(PalmPositions[3], {"index"}, {}, FALSE),
      EdgeOnHand }

\* results.multi_hand_landmarks: up to MaxNumHands hands, in detection order.
Frames ==
    UNION { [1..n -> LoopSkeletons] : n \in 0..MaxNumHands }

\* What the capture does in one tick: <<isOpened(), success of read(), hands>>.
Captures ==
    { <<FALSE, FALSE, << >> >>, <<TRUE, FALSE, << >> >> }
    \cup { <<TRUE, TRUE, hands>> : hands \in Frames }

\* Faulty variant: a hand seen edge-on taken for a right hand.
is_right_hand_or_edge_on(landmarks) == at(landmarks, 2).x <= at(landmarks, 17).x

is_right_hand(landmarks) == at(landmarks, 2).x < at(landmarks, 17).x

\* The dict self.current_hand_landmarks names: it is bound to the
\* module-level dict in __init__ and never bound again.
current_hand_landmarks == empty_landmarks

\* The dict self.past_hand_landmarks names.
past_dict == IF past_hand_landmarks.alias THEN empty_landmarks
             ELSE past_hand_landmarks.dict

\* The loop "for landmarks in landmarkList" on the dict d.
RECURSIVE store_landmarks(_, _)
store_landmarks(d, landmarkList) ==
    IF landmarkList = << >> THEN d
    ELSE LET landmarks == Head(landmarkList)
             side == IF is_right_hand(landmarks) THEN "Right" ELSE "Left"
         IN store_landmarks([d EXCEPT ![side] = landmarks], Tail(landmarkList))

\* Faulty variant: the previous landmarks copied after the loop has stored the
\* hands of the frame.
get_image_data_past_after_loop(capture) ==
    IF capture[1] /\ capture[2]
    THEN LET stored == store_landmarks(current_hand_landmarks, capture[3])
         IN [ret |-> <<TRUE, "image", stored, stored>>,
             empty_landmarks |-> stored,
             past_hand_landmarks |->
                 IF capture[3] # << >> THEN [alias |-> FALSE, dict |-> stored]
                 ELSE [alias |-> TRUE]]
    ELSE [ret |-> <<FALSE, "None">>,
          empty_landmarks |-> empty_landmarks,
          past_hand_landmarks |-> past_hand_landmarks]

\* get_image_data on a capture: the tuple it returns and the tracker's state.
get_image_data(capture) ==
    IF capture[1] /\ capture[2]
    THEN LET local_past == past_dict
             stored == store_landmarks(current_hand_landmarks, capture[3])
         IN [ret |-> <<TRUE, "image", stored, local_past>>,
             empty_landmarks |-> stored,
             past_hand_landmarks |->
                 IF capture[3] # << >> THEN [alias |-> FALSE, dict |-> stored]
                 ELSE [alias |-> TRUE]]
    ELSE [ret |-> <<FALSE, "None">>,
          empty_landmarks |-> empty_landmarks,
          past_hand_landmarks |-> past_hand_landmarks]

\* HandTracker.__del__: clean_up closes the detection model and the capture;
\* it emits no input event.
HandTracker__del__ ==
    /\ "hand_tracker" \notin deleted
    /\ deleted' = deleted \cup {"hand_tracker"}
    /\ keyboard_events' = << >>
    /\ mouse_events' = << >>
    /\ UNCHANGED <<config_vars, call_vars, tracker_vars, gui_vars, alt_tab_held,
                   history_vars>>

-----------------------------------------------------------------------------
(* Presentation loop                                                       *)

\* Successful ticks counted since a hand was last seen: up to this many.
MaxTicksAgo == 2

\* The side of a hand in the history: Right when landmark 2 lies strictly
\* left of landmark 17, Left otherwise.
SideOf(landmarks) ==
    IF landmarks[3].x < landmarks[18].x THEN "Right" ELSE "Left"

\* The last hand of the given side among hands, or the empty list.
LastOfSide(hands, side) ==
    LET found == SelectSeq(hands, LAMBDA h : SideOf(h) = side)
    IN IF found = << >> THEN empty_landmark_list ELSE found[Len(found)]

\* The history of the hands seen, after a successful tick on a frame that
\* shows hands.
seen_after(seen, hands) ==
    [side \in {"Right", "Left"} |->
        LET hand == LastOfSide(hands, side)
        IN IF hand # empty_landmark_list
           THEN [landmarks |-> hand, ticks_ago |-> 0]
           ELSE IF seen[side].landmarks = empty_landmark_list THEN seen[side]
           ELSE [seen[side] EXCEPT
                   !.ticks_ago = IF @ < MaxTicksAgo THEN @ + 1 ELSE @]]

\* Faulty variant: the callback scheduled twice.
window_after_twice(pending) == pending + 2

\* self.window.after(self.delay, self.update): one more callback pending.
window_after(pending) == pending + 1

\* GUI.update: called once by GUI.__init__ and then as the callback it
\* schedules.  Unpacking the tuple of get_image_data into four names raises
\* ValueError when the tuple has two elements; the call of window.after is
\* then not reached.
update ==
    /\ deleted = {}
    /\ ~started \/ after_pending > 0
    /\ \E capture \in Captures, cursor \in CursorPositions :
         LET got == get_image_data(capture)
             ret == got.ret
             fired == IF started THEN 1 ELSE 0
             to_mouse == /\ Len(ret) = 4
                         /\ ret[3].Left # empty_landmark_list
                         /\ ret[4].Left # empty_landmark_list
             to_keyboard == /\ Len(ret) = 4
                            /\ ret[3].Right # empty_landmark_list
                            /\ ret[4].Right # empty_landmark_list
         IN /\ results' = capture[3]
            /\ image_data' = ret
            /\ empty_landmarks' = got.empty_landmarks
            /\ past_hand_landmarks' = got.past_hand_landmarks
            /\ started' = TRUE
            /\ IF Len(ret) # 4
               THEN /\ raised' = "ValueError"
                    /\ after_pending' = after_pending - fired
                    /\ mouse_events' = << >>
                    /\ keyboard_events' = << >>
                    /\ tick_calls' = << "get_image_data" >>
                    /\ last_seen' = last_seen
               ELSE /\ raised' = raised
                    /\ after_pending' = window_after(after_pending - fired)
                    /\ tick_calls' =
                         << "get_image_data" >>
                         \o (IF to_mouse
                             THEN << "translate_landmarks_to_mouse_action" >>
                             ELSE << >>)
                         \o (IF to_keyboard
                             THEN << "translate_landmarks_to_keyboard_action" >>
                             ELSE << >>)
                         \o << "after" >>
                    /\ last_seen' = seen_after(last_seen, capture[3])
                    /\ mouse_events' =
                         IF to_mouse
                         THEN mouse_action(ret[3].Left, ret[4].Left, cursor,
                                           distance_threshold, shake_sensitivity,
                                           mouse_sensitivity, scroll_sensitivity)
                         ELSE << >>
                    /\ keyboard_events' =
                         IF to_keyboard
                         THEN keyboard_action(ret[3].Right, ret[4].Right,
                                              distance_threshold, shake_sensitivity)
                         ELSE << >>
            /\ alt_tab_held' = held_after(alt_tab_held, keyboard_events')
            /\ UNCHANGED <<config_vars, call_vars, deleted>>

Next ==
    \/ translate_landmarks_to_keyboard_action
    \/ translate_landmarks_to_keyboard_action_again
    \/ translate_landmarks_to_mouse_action
    \/ translate_landmarks_to_mouse_action_again
    \/ set_shake_sensitivity
    \/ Translator__del__
    \/ HandTracker__del__

Spec == Init /\ [][Next]_vars

\* The running program: the presentation loop, and the setters between ticks.
NextLoop ==
    \/ update
    \/ set_shake_sensitivity
    \/ Translator__del__
    \/ HandTracker__del__

SpecLoop == Init /\ [][NextLoop]_vars

-----------------------------------------------------------------------------
(* Vocabulary of the properties, stated on the landmarks themselves        *)

\* The channels the last operation called on (mp_landmarks,
\* mp_past_landmarks): none once a teardown has run.
calls == IF deleted = {} THEN called ELSE {}

KeyboardCalled == "keyboard" \in calls /\ Len(mp_past_landmarks) # 0
MouseCalled == "mouse" \in calls /\ Len(mp_past_landmarks) # 0

\* The fingertip of f is within the distance threshold of the thumb tip.
Touching(coords, f) ==
    LET tip == at(coords, TipOf(f))
        thumb == at(coords, 4)
    IN (tip.x - thumb.x) * (tip.x - thumb.x) + (tip.y - thumb.y) * (tip.y - thumb.y)
       + (tip.z - thumb.z) * (tip.z - thumb.z)
         <= distance_threshold * distance_threshold

\* All four fingertips lie below their middle joints.
Fist(coords) ==
    \A f \in Fingers : at(coords, TipOf(f)).y > at(coords, JointOf(f)).y

\* Falling edge of finger f between the previous and the current landmarks.
Released(f) == Touching(mp_past_landmarks, f) /\ ~Touching(mp_landmarks, f)

PalmDelta ==
    [a \in {"x", "y", "z"} |-> Abs(at(mp_landmarks, 0)[a] - at(mp_past_landmarks, 0)[a])]

\* The palm is inside the deadzone of width w on all three axes.
InDeadzone(w) == \A a \in {"x", "y", "z"} : PalmDelta[a] < w

\* Number of events of evs whose operation is op.
RECURSIVE CountOp(_, _)
CountOp(evs, op) ==
    IF evs = << >> THEN 0
    ELSE (IF Head(evs)[1] = op THEN 1 ELSE 0) + CountOp(Tail(evs), op)

Sent(evs, key) == \E i \in DOMAIN evs : evs[i] = Send(key)

Ops(evs) == [i \in DOMAIN evs |-> evs[i][1]]

\* A step that calls the keyboard channel with the current landmarks of the
\* keyboard call before it as its previous ones.
NextKeyboardCall ==
    /\ KeyboardCalled
    /\ "keyboard" \in calls'
    /\ mp_past_landmarks' = mp_landmarks

NextMouseCall ==
    /\ MouseCalled
    /\ "mouse" \in calls'
    /\ mp_past_landmarks' = mp_landmarks

\* The first finger, in the order of the keyboard channel, among fs.
FirstFinger(fs) ==
    IF "index" \in fs THEN "index" ELSE IF "middle" \in fs THEN "middle"
    ELSE IF "ring" \in fs THEN "ring" ELSE "pinkie"

-----------------------------------------------------------------------------
(* Claims                                                                  *)

\* C1 as stated: every call of the keyboard channel emits at most one
\* keyboard event.
C1_AtMostOneKeyboardEvent ==
    KeyboardCalled => Len(keyboard_events) <= 1

\* C1 as amended: every call of the keyboard channel emits at most two
\* keyboard events, and two only as one press of alt+tab followed by one
\* send; it never emits two sends, nor a release beside another event.
C1_AtMostOnePressThenOneSend ==
    KeyboardCalled =>
        /\ Len(keyboard_events) <= 2
        /\ CountOp(keyboard_events, "send") <= 1
        /\ Len(keyboard_events) = 2 =>
              /\ keyboard_events[1] = Press("alt+tab")
              /\ keyboard_events[2][1] = "send"

\* A call that emitted the press of alt+tab and then a send.
C1_Witness ==
    /\ KeyboardCalled
    /\ Len(keyboard_events) = 2
    /\ \E key \in {"shift+tab", "tab"} : keyboard_events[2] = Send(key)

\* C2: whenever the current skeleton is a fist, the keyboard channel sends
\* none of space, enter, backspace, escape.
C2_NoFingerKeyOnFist ==
    (KeyboardCalled /\ Fist(mp_landmarks)) =>
        \A key \in FingerKeys : ~Sent(keyboard_events, key)

\* C3: a tick whose frame acquisition failed emits no event, raises no
\* error and leaves the next tick scheduled.
C3_FailedTickContinues ==
    (started /\ Len(image_data) = 2) =>
        /\ raised = "none"
        /\ after_pending = 1
        /\ keyboard_events = << >>
        /\ mouse_events = << >>

\* C4: the keyboard channel presses alt+tab in a call iff current is a fist
\* and previous is not, and then once; in a call that follows a keyboard
\* call and finds the fist still held, alt+tab is not pressed again.
C4_PressedIffRisingEdge ==
    KeyboardCalled =>
        /\ CountOp(keyboard_events, "press") =
              (IF Fist(mp_landmarks) /\ ~Fist(mp_past_landmarks) THEN 1 ELSE 0)
        /\ \A i \in DOMAIN keyboard_events :
              keyboard_events[i][1] = "press" => keyboard_events[i] = Press("alt+tab")

C4_NotPressedWhileHeld ==
    (NextKeyboardCall /\ Fist(mp_landmarks) /\ Fist(mp_landmarks')) =>
        CountOp(keyboard_events', "press") = 0

C4_AltTabPressedOnRisingEdgeOnly ==
    [](C4_PressedIffRisingEdge) /\ [][C4_NotPressedWhileHeld]_vars

\* A call that found the fist just made and pressed alt+tab once.
C4_Witness ==
    /\ KeyboardCalled
    /\ Fist(mp_landmarks) /\ ~Fist(mp_past_landmarks)
    /\ CountOp(keyboard_events, "press") = 1
    /\ keyboard_events[1] = Press("alt+tab")

\* C5, first part: when current is not a fist, the keyboard channel sends
\* the key of the first released finger in the order index, middle, ring,
\* pinkie, and no other finger key; a finger that was not released in the
\* call (it stayed on the thumb or stayed apart) sends nothing.
C5_FirstReleasedFingerOnly ==
    KeyboardCalled =>
        LET released == { f \in Fingers : Released(f) }
            sent == { f \in Fingers : Sent(keyboard_events, KeyOf(f)) }
        IN /\ sent \subseteq released
           /\ ~Fist(mp_landmarks) =>
                 /\ sent = IF released = {} THEN {} ELSE { FirstFinger(released) }
                 /\ CountOp(keyboard_events, "send") = Cardinality(sent)

\* C5 as stated: moreover each release of a finger sends its key, once.
C5_EveryReleaseSendsItsKey ==
    /\ C5_FirstReleasedFingerOnly
    /\ (KeyboardCalled /\ ~Fist(mp_landmarks)) =>
          \A f \in Fingers : Released(f) => Sent(keyboard_events, KeyOf(f))

\* C5, over consecutive calls: a key sent in one call is not sent again in
\* the next, and a release whose key was not sent is not made up for.
C5_NoKeyTwice ==
    NextKeyboardCall =>
        \A f \in Fingers :
            (Sent(keyboard_events, KeyOf(f)) \/ Released(f)) =>
                ~Sent(keyboard_events', KeyOf(f))

\* C5 as amended: each touch-then-release sends its key at most once, and
\* exactly once when the call that sees the release has a current that is
\* not a fist and no finger earlier in the order released with it.
C5_FirstReleaseSentAtMostOnce ==
    [](C5_FirstReleasedFingerOnly) /\ [][C5_NoKeyTwice]_vars

\* Index and middle finger left the thumb in the same call: space alone.
C5_Witness ==
    /\ KeyboardCalled
    /\ ~Fist(mp_landmarks)
    /\ Released("index") /\ Released("middle")
    /\ keyboard_events = << Send("space") >>

\* C6: a mouse call on an open hand whose palm is not shaking emits exactly
\* one action: click if the index touches, else right-click if the ring
\* touches, else scroll if the middle touches, else a cursor move; and no
\* call emits two mouse actions.
C6_OneMouseActionByPriority ==
    MouseCalled =>
        /\ Len(mouse_events) <= 1
        /\ (~InDeadzone(shake_sensitivity) /\ ~Fist(mp_landmarks)) =>
              Ops(mouse_events) =
                 IF Touching(mp_landmarks, "index") THEN << "click" >>
                 ELSE IF Touching(mp_landmarks, "ring") THEN << "right_click" >>
                 ELSE IF Touching(mp_landmarks, "middle") THEN << "wheel" >>
                 ELSE << "move" >>

\* Ring and middle finger both on the thumb: the right-click wins.
C6_Witness ==
    /\ MouseCalled
    /\ ~InDeadzone(shake_sensitivity) /\ ~Fist(mp_landmarks)
    /\ Touching(mp_landmarks, "ring") /\ Touching(mp_landmarks, "middle")
    /\ Ops(mouse_events) = << "right_click" >>

\* C7: the mouse channel emits nothing when the palm differs from the
\* previous palm by less than shake_sensitivity on all three axes, or when
\* current is a fist.
C7_NoMouseActionWhenShakingOrFist ==
    (MouseCalled /\ (InDeadzone(shake_sensitivity) \/ Fist(mp_landmarks))) =>
        mouse_events = << >>

\* An open hand with the index on the thumb, moved diagonally by less than
\* the shake sensitivity: nothing is emitted.
C7_Witness ==
    /\ MouseCalled
    /\ InDeadzone(shake_sensitivity)
    /\ PalmDelta.x > 0 /\ PalmDelta.y > 0
    /\ ~Fist(mp_landmarks)
    /\ Touching(mp_landmarks, "index")
    /\ mouse_events = << >>

\* C8, in one call: the mouse channel clicks whenever the index touches the
\* thumb on an open, moving hand, whatever the previous distance was; the
\* keyboard channel sends no space while the touch is held, nothing at all
\* when no other finger was released and the hand was open before, and
\* exactly space in the call that sees the index released.
C8_LevelAndEdge ==
    /\ (MouseCalled /\ Touching(mp_landmarks, "index") /\ ~Fist(mp_landmarks)
          /\ ~InDeadzone(shake_sensitivity))
         => Ops(mouse_events) = << "click" >>
    /\ (KeyboardCalled /\ ~Fist(mp_landmarks) /\ Touching(mp_landmarks, "index")
          /\ Touching(mp_past_landmarks, "index"))
         => /\ ~Sent(keyboard_events, "space")
            /\ (~Fist(mp_past_landmarks)
                  /\ \A f \in Fingers \ {"index"} : ~Released(f))
                 => keyboard_events = << >>
    /\ (KeyboardCalled /\ ~Fist(mp_landmarks) /\ Released("index"))
         => keyboard_events = << Send("space") >>

\* C8, over consecutive calls: a click is followed by a click while the
\* touch is held; a space is not followed by a space.
C8_ClickRepeatsSpaceDoesNot ==
    /\ (NextMouseCall /\ Ops(mouse_events) = << "click" >>
          /\ Touching(mp_landmarks', "index") /\ ~Fist(mp_landmarks')
          /\ \E a \in {"x", "y", "z"} :
                Abs(at(mp_landmarks', 0)[a] - at(mp_landmarks, 0)[a])
                   >= shake_sensitivity')
         => Ops(mouse_events') = << "click" >>
    /\ (NextKeyboardCall /\ Sent(keyboard_events, "space"))
         => ~Sent(keyboard_events', "space")

C8_MouseLevelKeyboardEdge ==
    [](C8_LevelAndEdge) /\ [][C8_ClickRepeatsSpaceDoesNot]_vars

\* Both channels called on the same held touch of a moving open hand: the
\* mouse clicks, the keyboard sends nothing.
C8_Witness ==
    /\ calls = {"keyboard", "mouse"}
    /\ Len(mp_past_landmarks) # 0
    /\ ~Fist(mp_landmarks) /\ ~Fist(mp_past_landmarks)
    /\ Touching(mp_landmarks, "index") /\ Touching(mp_past_landmarks, "index")
    /\ ~InDeadzone(shake_sensitivity)
    /\ Ops(mouse_events) = << "click" >>
    /\ keyboard_events = << >>

\* C9 as stated: a mouse call with previous equal to current fires no
\* click, right-click or scroll, whatever the shake sensitivity.
C9_SameSkeletonNeverFires ==
    (MouseCalled /\ mp_past_landmarks = mp_landmarks) =>
        \A i \in DOMAIN mouse_events :
            mouse_events[i][1] \notin {"click", "right_click", "wheel"}

\* C9 as amended: a mouse call with previous equal to current emits
\* nothing when shake_sensitivity > 0.
C9_SameSkeletonSilentIfSensitive ==
    (MouseCalled /\ mp_past_landmarks = mp_landmarks /\ shake_sensitivity > 0) =>
        mouse_events = << >>

\* A held touch passed as both current and previous, nothing emitted.
C9_Witness ==
    /\ MouseCalled
    /\ mp_past_landmarks = mp_landmarks
    /\ shake_sensitivity > 0
    /\ Touching(mp_landmarks, "index") /\ ~Fist(mp_landmarks)
    /\ mouse_events = << >>

\* C10 as stated: on an input on which the keyboard channel sends space by
\* the index falling edge, the mouse channel emits nothing.
C10_MouseSilentOnIndexRelease ==
    (calls = {"keyboard", "mouse"} /\ Len(mp_past_landmarks) # 0
       /\ ~Fist(mp_landmarks) /\ Released("index")
       /\ Sent(keyboard_events, "space"))
      => mouse_events = << >>

\* C10 as amended: on such an input the mouse channel emits no left-click.
C10_NoClickOnIndexRelease ==
    (calls = {"keyboard", "mouse"} /\ Len(mp_past_landmarks) # 0
       /\ ~Fist(mp_landmarks) /\ Released("index")
       /\ Sent(keyboard_events, "space"))
      => \A i \in DOMAIN mouse_events : mouse_events[i][1] # "click"

\* The index left the thumb of a moving open hand: the keyboard sends space
\* and the mouse moves the cursor.
C10_Witness ==
    /\ calls = {"keyboard", "mouse"}
    /\ Len(mp_past_landmarks) # 0
    /\ ~Fist(mp_landmarks) /\ Released("index")
    /\ keyboard_events = << Send("space") >>
    /\ Ops(mouse_events) = << "move" >>

\* The product scroll_sensitivity * (palm.y - past palm.y) of the call, in
\* thousandths of a wheel click.
ScrollProduct ==
    scroll_sensitivity * (at(mp_landmarks, 0).y - at(mp_past_landmarks, 0).y)

\* n / 1000 rounded to the nearest integer, ties to the even neighbour.
RoundThousandths(n) ==
    LET q == n \div 1000
        r == n % 1000
    IN IF r < 500 THEN q
       ELSE IF r > 500 THEN q + 1
       ELSE IF q % 2 = 0 THEN q ELSE q + 1

\* The mouse channel reached its scroll branch: palm moved, hand open,
\* neither index nor ring on the thumb, middle on the thumb.
ScrollGesture ==
    /\ MouseCalled
    /\ ~InDeadzone(shake_sensitivity)
    /\ ~Fist(mp_landmarks)
    /\ ~Touching(mp_landmarks, "index")
    /\ ~Touching(mp_landmarks, "ring")
    /\ Touching(mp_landmarks, "middle")

\* C11 as stated: when the mouse channel scrolls, the amount passed to the
\* wheel is minus the product of scroll sensitivity and palm delta rounded
\* to the nearest integer, and the cursor is not moved in that call.
C11_ScrollRoundedToNearest ==
    ScrollGesture =>
        mouse_events = << Wheel(-RoundThousandths(ScrollProduct)) >>

\* C11 as amended: when the mouse channel scrolls, it emits one wheel event
\* and nothing else; the amount is minus the product of scroll sensitivity
\* and palm delta with its fraction dropped (cut toward zero): it has the
\* sign opposite to the product's and its magnitude is the largest integer
\* not above the product's magnitude.
C11_ScrollTruncatedTowardZero ==
    ScrollGesture =>
        /\ Ops(mouse_events) = << "wheel" >>
        /\ LET clicks == -mouse_events[1][2]
           IN /\ clicks * ScrollProduct >= 0
              /\ Abs(clicks) * 1000 <= Abs(ScrollProduct)
              /\ Abs(ScrollProduct) < (Abs(clicks) + 1) * 1000

\* A scroll whose product is -1.6 clicks (palm up by 0.008 at sensitivity
\* 200): the wheel gets 1 where rounding to the nearest would give 2.
C11_Witness ==
    /\ ScrollGesture
    /\ ScrollProduct = -1600
    /\ mouse_events = << Wheel(1) >>

DirectionalKeys == {"shift+tab", "tab", "down arrow", "up arrow"}

\* The directional keys sent by the call, in order.
DirectionalSends ==
    SelectSeq(keyboard_events,
              LAMBDA e : e[1] = "send" /\ e[2] \in DirectionalKeys)

\* The key the fixed priority of the directional tests selects.
PriorityKey ==
    LET palm == at(mp_landmarks, 0)
        past_palm == at(mp_past_landmarks, 0)
    IN IF palm.x <= past_palm.x THEN "shift+tab"
       ELSE IF palm.x > past_palm.x THEN "tab"
       ELSE IF palm.y <= past_palm.y THEN "down arrow"
       ELSE "up arrow"

\* C12: when current is a fist and the palm is not shaking under
\* shake_sensitivity + 0.008, the keyboard channel sends exactly one
\* directional key, the one the priority x <= past x, x > past x,
\* y <= past y, else selects (so a diagonal move sends a horizontal key);
\* when the palm is shaking under that threshold no directional key is sent.
C12_OneDirectionalKeyByPriority ==
    (KeyboardCalled /\ Fist(mp_landmarks)) =>
        IF InDeadzone(shake_sensitivity + FistShakeOffset)
        THEN DirectionalSends = << >>
        ELSE DirectionalSends = << Send(PriorityKey) >>

\* A fist moved right and down at once, beyond the fist deadzone: "tab" is
\* sent.
C12_Witness ==
    /\ KeyboardCalled /\ Fist(mp_landmarks)
    /\ ~InDeadzone(shake_sensitivity + FistShakeOffset)
    /\ at(mp_landmarks, 0).x > at(mp_past_landmarks, 0).x
    /\ at(mp_landmarks, 0).y > at(mp_past_landmarks, 0).y
    /\ DirectionalSends = << Send("tab") >>

\* C13: while a fist is held (current and previous both fists), a purely
\* vertical palm movement beyond the fist deadzone (x unchanged, |y - past y|
\* >= shake_sensitivity + 0.008) sends "down arrow" when y <= past y and
\* "up arrow" when y > past y.
C13_VerticalFistMoveSendsArrow ==
    ( /\ KeyboardCalled
      /\ Fist(mp_landmarks) /\ Fist(mp_past_landmarks)
      /\ at(mp_landmarks, 0).x = at(mp_past_landmarks, 0).x
      /\ PalmDelta.y >= shake_sensitivity + FistShakeOffset )
    => IF at(mp_landmarks, 0).y <= at(mp_past_landmarks, 0).y
       THEN Sent(keyboard_events, "down arrow")
       ELSE Sent(keyboard_events, "up arrow")

AltTabReleased ==
    \E i \in DOMAIN keyboard_events : keyboard_events[i] = Release("alt+tab")

\* C14: a call of the keyboard channel releases alt+tab iff current is not
\* a fist, previous is a fist and no finger left the thumb between previous
\* and current (so that no finger key fired in the call); no other call
\* releases it, and a call with an empty previous never does.
C14_AltTabReleasedIffFistOpenedWithoutFingerKey ==
    "keyboard" \in calls =>
        ( AltTabReleased <=>
            /\ Len(mp_past_landmarks) # 0
            /\ ~Fist(mp_landmarks)
            /\ Fist(mp_past_landmarks)
            /\ \A f \in Fingers : ~Released(f)
            /\ \A key \in FingerKeys : ~Sent(keyboard_events, key) )

\* A fist opened with no finger leaving the thumb: the call releases
\* alt+tab and emits nothing else.
C14_Witness ==
    /\ KeyboardCalled
    /\ ~Fist(mp_landmarks) /\ Fist(mp_past_landmarks)
    /\ keyboard_events = << Release("alt+tab") >>

Sides == {"Right", "Left"}

\* A step of the loop that is a tick whose frame was acquired.
SuccessfulTick ==
    /\ deleted' = {}
    /\ shake_sensitivity' = shake_sensitivity
    /\ Len(image_data') = 4

\* The frame of the last tick shows a hand of the given side.
Detected(side) == LastOfSide(results, side) # empty_landmark_list

\* C15: on every successful tick and for each slot, the previous skeleton
\* returned is the hand of that side in the most recent earlier frame that
\* showed one (the empty list if none did), however many ticks without that
\* hand lie between; it does not depend on the frame of the tick itself.
C15_PreviousIsLastSeenBefore ==
    [][SuccessfulTick =>
         \A side \in Sides : image_data'[4][side] = last_seen[side].landmarks]_vars

\* A tick whose frame shows a left hand only, after a tick that showed no
\* right hand either: the previous skeleton returned for Right is the right
\* hand of a frame at least two ticks back.
C15_Witness ==
    /\ Len(image_data) = 4
    /\ ~Detected("Right") /\ Detected("Left")
    /\ last_seen.Right.ticks_ago = 2
    /\ image_data[4].Right = last_seen.Right.landmarks
    /\ image_data[4].Right # empty_landmark_list
    /\ image_data[4].Left # LastOfSide(results, "Left")

\* C16: after every successful tick, the current skeleton returned for a
\* slot is the empty list iff the frame of that tick shows no hand of that
\* side.
C16_CurrentEmptyIffNotDetected ==
    (deleted = {} /\ Len(image_data) = 4) =>
        \A side \in Sides :
            image_data[3][side] = empty_landmark_list <=> ~Detected(side)

\* C19: a detected hand counts as Right iff its landmark 2 has x strictly
\* less than its landmark 17, else as Left, equal x included; a successful
\* tick writes each hand of the frame into the current entry of its side
\* (the last one written stays) and leaves the current entry of a side the
\* frame does not show as it was.
C19_StoredBySideOtherSlotUnchanged ==
    [][SuccessfulTick =>
         \A side \in Sides :
            image_data'[3][side] =
                IF LastOfSide(results', side) # empty_landmark_list
                THEN LastOfSide(results', side)
                ELSE current_hand_landmarks[side]]_vars

\* A frame showing only a hand with landmarks 2 and 17 at the same x, after
\* a right hand was seen: the hand is stored as Left and the Right entry
\* still holds the right hand.
C19_Witness ==
    /\ Len(image_data) = 4
    /\ results = << EdgeOnHand >>
    /\ image_data[3].Left = EdgeOnHand
    /\ image_data[3].Right # empty_landmark_list
    /\ image_data[3].Right = image_data[4].Right

\* C17: a call of either channel with an empty previous landmark list emits
\* no keyboard and no mouse event and raises nothing, whatever the current
\* landmarks; alt+tab stays as it was, not held.
C17_EmptyPreviousNoEvent ==
    (calls # {} /\ mp_past_landmarks = empty_landmark_list) =>
        /\ keyboard_events = << >>
        /\ mouse_events = << >>
        /\ ~alt_tab_held
        /\ raised = "none"

\* C17, in the running loop: the first tick whose frame shows a hand of a
\* side emits no event on that side's channel (mouse for Left, keyboard for
\* Right).
C17_FirstTickOfHandSilent ==
    [][SuccessfulTick =>
         /\ (Detected("Left")' /\ last_seen.Left.landmarks = empty_landmark_list)
               => mouse_events' = << >>
         /\ (Detected("Right")' /\ last_seen.Right.landmarks = empty_landmark_list)
               => keyboard_events' = << >>]_vars

\* Both channels called on a first fist with the index on the thumb and no
\* previous landmarks: neither emitted anything.
C17_Witness ==
    /\ calls = {"keyboard", "mouse"}
    /\ mp_past_landmarks = empty_landmark_list
    /\ Fist(mp_landmarks) /\ Touching(mp_landmarks, "index")
    /\ keyboard_events = << >> /\ mouse_events = << >>

\* The calls of a tick that ran to its end, in order: the frame, at most one
\* mouse classification, then at most one keyboard classification, then the
\* scheduling of the next tick.
CompletedTicks ==
    { << "get_image_data" >> \o m \o k \o << "after" >> :
        m \in { << >>, << "translate_landmarks_to_mouse_action" >> },
        k \in { << >>, << "translate_landmarks_to_keyboard_action" >> } }

\* C18: every tick pulls one frame, runs at most one mouse classification
\* and then at most one keyboard classification, and after them schedules
\* exactly one next tick, so that exactly one tick is pending between ticks.
C18_EachTickSchedulesOneNext ==
    (started /\ deleted = {}) =>
        /\ tick_calls \in CompletedTicks
        /\ after_pending = 1

\* C18, the part that holds: at most one tick is pending at any time; a
\* tick schedules at most one next tick and only as its last call, after
\* the frame and the classifications; a tick that schedules none has made
\* no classification.
C18_AtMostOneTickPending ==
    /\ after_pending \in {0, 1}
    /\ started =>
          /\ tick_calls \in CompletedTicks \cup { << "get_image_data" >> }
          /\ after_pending = CountOp([i \in DOMAIN tick_calls |-> << tick_calls[i] >>], "after")

\* A tick that ran both classifications and scheduled the next tick.
C18_Witness ==
    /\ started /\ deleted = {}
    /\ tick_calls = << "get_image_data", "translate_landmarks_to_mouse_action",
                       "translate_landmarks_to_keyboard_action", "after" >>
    /\ after_pending = 1
    /\ mouse_events # << >> /\ keyboard_events # << >>

\* C20: the teardown of the translator emits release("alt+tab") and nothing
\* else, whether alt+tab is held or not and whether the hand tracker is torn
\* down already or not; once it has run, alt+tab is not held.
C20_TeardownReleasesAltTab ==
    /\ []("translator" \in deleted => ~alt_tab_held)
    /\ [][("translator" \notin deleted /\ "translator" \in deleted') =>
            /\ keyboard_events' = << Release("alt+tab") >>
            /\ ~alt_tab_held']_vars

\* The translator torn down right after the keyboard call that pressed
\* alt+tab on a new fist, the hand tracker still alive: alt+tab, held until
\* then, is released.
C20_Witness ==
    /\ deleted = {"translator"}
    /\ "keyboard" \in called
    /\ Len(mp_past_landmarks) # 0
    /\ Fist(mp_landmarks) /\ ~Fist(mp_past_landmarks)
    /\ keyboard_events = << Release("alt+tab") >>
    /\ ~alt_tab_held

\* C21: over consecutive keyboard calls, each on the current landmarks of
\* the call before as its previous ones, alt+tab pressed on a fist is
\* released no later than the first call whose current landmarks are not a
\* fist, also when a finger leaves the thumb in that call.
C21_AltTabReleasedWhenFistOpens ==
    [][(NextKeyboardCall /\ alt_tab_held /\ Fist(mp_landmarks)
          /\ ~Fist(mp_landmarks'))
         => ~alt_tab_held']_vars

\* C22: in the running loop, "tab" and "shift+tab" are sent only while
\* alt+tab is held, a hand first seen as a fist included, and the keyboard
\* channel releases alt+tab only when it holds it.
C22_NavigationOnlyWhileAltTabHeld ==
    /\ []((Sent(keyboard_events, "tab") \/ Sent(keyboard_events, "shift+tab"))
            => alt_tab_held)
    /\ [][(SuccessfulTick /\ AltTabReleased') => alt_tab_held]_vars

\* C23: after a successful tick whose frame shows no hand of a side, no
\* event was emitted on that side's channel (mouse for Left, keyboard for
\* Right), whether or not a hand of that side was seen in earlier frames.
C23_NoEventForUndetectedHand ==
    (deleted = {} /\ Len(image_data) = 4) =>
        /\ ~Detected("Left") => mouse_events = << >>
        /\ ~Detected("Right") => keyboard_events = << >>

====
